---- MODULE Spec2Model ----
(***************************************************************************)
(* A model of the Blossom agent framework's state store                    *)
(* (src/graph/state_manager.py): the two SQLite tables agent_states and    *)
(* state_history, and the StateManager operations on them.                 *)
(*                                                                         *)
(* Every StateManager operation opens a connection of its own, runs its    *)
(* statements and closes the connection in a finally block.  Python's      *)
(* sqlite3 runs a SELECT outside any transaction and opens a transaction   *)
(* implicitly before the first INSERT / REPLACE / DELETE; commit()         *)
(* publishes the transaction and close() without commit() rolls it back.   *)
(* A connection is modelled by its position (pc), its local variables      *)
(* (loc) and, while it holds SQLite's write lock, the staged tables (txn).  *)
(*                                                                         *)
(* Timestamps are counted in sub-second units since an epoch;              *)
(* datetime.now().isoformat() preserves their order, and SQLite's          *)
(* datetime() drops the fraction of a second.  The wall clock is taken to  *)
(* be non-decreasing.                                                      *)
(*                                                                         *)
(* The second part models the agent manager (src/utils/agent_manager.py)   *)
(* and the agents' life cycle (src/agents/base_agent.py).  The manager's   *)
(* coroutines await the agents' initialize(), cleanup() and                *)
(* process_cycle(); between two awaits a coroutine runs alone on the event *)
(* loop, and at an await of an agent's method another task may run.  A     *)
(* task is modelled by its position (tpc) and its local variables (tloc);  *)
(* one step of a task runs from one await to the next.                     *)
(***************************************************************************)
EXTENDS Integers, Sequences, FiniteSets, TLC

\* ------------------------------------------------------------- bounds
\* Rows ever inserted into state_history (the AUTOINCREMENT counter's cap).
MaxSaves == 2
\* The last instant of the clock, in sub-second units.
MaxTime == 2
\* Sub-second units per second (stands for the 10^6 microseconds of isoformat).
SubsPerSec == 2

\* ------------------------------------------------------------- inputs
\* Identities the framework saves under (framework.py: "agents", "progress").
AgentIds == {"agents", "progress"}
\* Python dicts with string keys, the mappings save_state is given: between two of
\* them a key can be added, removed, modified or left as it is.
Dicts == {<<>>, [a |-> 0], [a |-> 1], [a |-> 0, b |-> 0]}
\* before_date of clear_history: None, or an instant.
NoDate == -1
\* Connections: c1 is the event loop's; c2 is a second thread or process.
Conns == {"c1", "c2"}
SerialConns == {"c1"}
\* The inputs of the two overlapping callers: one identity, two mappings.
ConcAgentIds == {"agents"}
ConcDicts == {[a |-> 0], [a |-> 1]}
ConcDates == {NoDate}
BeforeDates == {NoDate} \cup (0..MaxTime)
\* Identities agents are registered under, and the agent objects.
AgentNames == {"goal_setting", "motivation_mapping"}
Instances == {"i1", "i2"}
\* The tasks of the event loop that call the manager and the agents.
Tasks == {"t1", "t2"}
\* event["type"]: the three the manager acts on, and one it does not.
EventTypes == {"start", "stop", "update", "agent_event"}
\* event.get("agent_id") of an event without one.
NoAgentId == ""

VARIABLES
  agent_states,   \* table agent_states: agent_id -> [state, timestamp, version]
  state_history,  \* table state_history: a set of rows [id, agent_id, state, timestamp, version]
  seq,            \* sqlite_sequence of state_history: the largest id ever committed
  clock,          \* datetime.now()
  pc,             \* each connection's position in its operation
  loc,            \* each connection's local variables
  writer,         \* the connection holding the write lock, or "none"
  txn,            \* the staged tables of the writer's open transaction
  saved           \* history variable: committed save_state calls per identity

VARIABLES
  agents,         \* AgentManager.agents: the dict, as the list of its items in insertion order
  active_agents,  \* AgentManager.active_agents
  running,        \* BaseAgent.running of each agent object
  tpc,            \* each task's position: idle, or the agent method it awaits
  tloc,           \* each task's local variables
  ret             \* history variable: how the last call that ended has ended

VARIABLES
  cache,          \* table engagement_cache: key -> [value, timestamp, expiry]
  utcoffset,      \* seconds the process's local time is ahead of UTC
  entries,        \* history variable: the entry last set under a key and not deleted
  cres,           \* history variable: how the last call of the cache has ended
  sent,           \* the messages send_message was called with, as its debug log has them
  inbox           \* the messages queued for each agent

storeVars == <<agent_states, state_history, seq, clock, pc, loc, writer, txn, saved>>
mgrVars == <<agents, active_agents, running, tpc, tloc, ret>>
cacheVars == <<cache, utcoffset, entries, cres>>
msgVars == <<sent, inbox>>
\* What neither the state store nor the agent manager touches.
sideVars == <<cacheVars, msgVars>>
vars == <<agent_states, state_history, seq, clock, pc, loc, writer, txn, saved,
          agents, active_agents, running, tpc, tloc, ret,
          cache, utcoffset, entries, cres, sent, inbox>>

\* ------------------------------------------------------------- JSON
\* json.dumps of a mapping: the text, as the set of its "key": value members.
JsonDumps(d) == {<<k, d[k]>> : k \in DOMAIN d}
\* json.loads of such a text: the mapping back.
JsonLoads(t) == [k \in {p[1] : p \in t} |-> (CHOOSE p \in t : p[1] = k)[2]]

\* ------------------------------------------------------------- SQL helpers
\* SQLite datetime(x): 'YYYY-MM-DD HH:MM:SS', the fraction of a second dropped.
SqlDatetime(ts) == ts \div SubsPerSec

\* Faulty variant of NextVersion: the version read is not incremented.
NextVersionStale(tbl, agent_id) ==
  IF agent_id \in DOMAIN tbl THEN tbl[agent_id].version ELSE 1

\* Faulty variant of NextVersion: the version is counted on from the rows the
\* identity has in state_history, which clear_history deletes.
NextVersionFromHistory(tbl, agent_id) ==
  LET rows == {r \in state_history : r.agent_id = agent_id}
  IN IF rows = {} THEN 1
     ELSE (CHOOSE r \in rows : \A q \in rows : q.version <= r.version).version + 1

\* cursor.fetchone() of SELECT version FROM agent_states WHERE agent_id = ?
\* then version = (result[0] + 1) if result else 1.
NextVersion(tbl, agent_id) ==
  IF agent_id \in DOMAIN tbl THEN tbl[agent_id].version + 1 ELSE 1

\* Faulty variant of InsertOrReplace: INSERT OR IGNORE keeps an existing row.
InsertOrIgnore(tbl, agent_id, row) ==
  [x \in DOMAIN tbl \cup {agent_id} |->
     IF x \in DOMAIN tbl THEN tbl[x] ELSE row]

\* INSERT OR REPLACE INTO agent_states: agent_id is the primary key.
InsertOrReplace(tbl, agent_id, row) ==
  [x \in DOMAIN tbl \cup {agent_id} |-> IF x = agent_id THEN row ELSE tbl[x]]

\* Faulty variant of HistoryInsert: the identity's older rows are replaced.
HistoryReplace(hist, row) ==
  {r \in hist : r.agent_id # row.agent_id} \cup {row}

\* INSERT INTO state_history: a new row under the next AUTOINCREMENT id.
HistoryInsert(hist, row) == hist \cup {row}

\* DELETE FROM state_history WHERE agent_id = ? [AND datetime(timestamp) < datetime(?)]
HistoryDelete(hist, agent_id, before) ==
  IF before # NoDate
  THEN {r \in hist : ~(r.agent_id = agent_id
                        /\ SqlDatetime(r.timestamp) < SqlDatetime(before))}
  ELSE {r \in hist : r.agent_id # agent_id}

\* ------------------------------------------------------------- state
NoLocals == [agent_id |-> "", state |-> <<>>, version |-> 0, now |-> 0, before |-> NoDate]
NoTxn == [agent_states |-> <<>>, state_history |-> {}, seq |-> 0]
\* A task that is in no call; no call has ended yet.
NoTask == [op |-> "", call |-> "", agent_id |-> "", agent |-> "", todo |-> <<>>, size |-> 0]
NoRet == [op |-> "", call |-> "", agent_id |-> "", outcome |-> "", skipped |-> {}]
\* Python's None, which load_state (lines 91-99) and the cache's get return for
\* a missing row (a value apart from every dict: no dict saved has the key None).
None == [None |-> "None"]
\* No EngagementCache has been constructed yet.
NoCres == [op |-> "", key |-> "", fault |-> "", outcome |-> "", value |-> None,
           opened |-> 0, closed |-> 0]

Init ==
  /\ agent_states = <<>>
  /\ state_history = {}
  /\ seq = 0
  /\ clock = 0
  /\ pc = [c \in Conns |-> "closed"]
  /\ loc = [c \in Conns |-> NoLocals]
  /\ writer = "none"
  /\ txn = NoTxn
  /\ saved = [a \in AgentIds |-> 0]
  /\ agents = <<>>
  /\ active_agents = {}
  /\ running = [a \in Instances |-> FALSE]
  /\ tpc = [t \in Tasks |-> "idle"]
  /\ tloc = [t \in Tasks |-> NoTask]
  /\ ret = NoRet
  /\ cache = <<>>
  /\ utcoffset = 0
  /\ entries = <<>>
  /\ cres = NoCres
  /\ sent = <<>>
  /\ inbox = [a \in AgentNames |-> <<>>]

\* ------------------------------------------------------------- reads
\* The rows of one identity in state_history.
HistoryOf(agent_id) == {r \in state_history : r.agent_id = agent_id}

\* cursor.fetchall() of a SELECT with no ORDER BY on state_history: the table is
\* scanned in the order of its integer primary key.
RECURSIVE FetchAll(_)
FetchAll(rows) ==
  IF rows = {} THEN <<>>
  ELSE LET first == CHOOSE r \in rows : \A q \in rows : r.id <= q.id
       IN <<first>> \o FetchAll(rows \ {first})

\* Faulty variant of LoadState: the state is read from the history table.
LoadStateFromHistory(agent_id) ==
  IF \E r \in state_history : r.agent_id = agent_id
  THEN JsonLoads((CHOOSE r \in state_history :
                    /\ r.agent_id = agent_id
                    /\ \A q \in state_history : q.agent_id = agent_id => q.id <= r.id).state)
  ELSE None

LoadState(agent_id) ==
  IF agent_id \in DOMAIN agent_states
  THEN JsonLoads(agent_states[agent_id].state)
  ELSE None

\* compare_states, lines 156-175: the three dicts of differences.
Differences(state1, state2) ==
  [added    |-> [k \in DOMAIN state2 \ DOMAIN state1 |-> state2[k]],
   removed  |-> [k \in DOMAIN state1 \ DOMAIN state2 |-> state1[k]],
   modified |-> [k \in {x \in DOMAIN state1 \cap DOMAIN state2 : state1[x] # state2[x]} |->
                   [from |-> state1[k], to |-> state2[k]]]]

\* The empty dict {} compare_states returns when it has no two rows.
EmptyDict == <<>>

\* Faulty variant of CompareStates: {} only when no row comes back.
CompareStatesLenient(agent_id, version1, version2) ==
  LET states == FetchAll({r \in HistoryOf(agent_id) : r.version \in {version1, version2}})
  IN IF Len(states) = 0
     THEN EmptyDict
     ELSE Differences(JsonLoads(states[1].state), JsonLoads(states[Len(states)].state))

\* compare_states, lines 143-175: SELECT state ... WHERE agent_id = ? AND
\* version IN (?, ?); {} unless exactly two rows come back; else the
\* differences from the first row fetched to the second.
CompareStates(agent_id, version1, version2) ==
  LET states == FetchAll({r \in HistoryOf(agent_id) : r.version \in {version1, version2}})
  IN IF Len(states) # 2
     THEN EmptyDict
     ELSE Differences(JsonLoads(states[1].state), JsonLoads(states[2].state))

\* The limits get_state_history is called with: none, some, more than there are.
Limits == 0..(MaxSaves + 1)

\* ORDER BY timestamp DESC: the later timestamp first.  SQL leaves the order of
\* rows with equal timestamps open; SQLite's sorter returns them in the order of
\* the scan, the smaller id first.
RECURSIVE OrderByTimestampDesc(_)
OrderByTimestampDesc(rows) ==
  IF rows = {} THEN <<>>
  ELSE LET first == CHOOSE r \in rows : \A q \in rows :
                      \/ r.timestamp > q.timestamp
                      \/ r.timestamp = q.timestamp /\ r.id <= q.id
       IN <<first>> \o OrderByTimestampDesc(rows \ {first})

\* LIMIT n: the first n rows.
SqlLimit(rows, limit) == SubSeq(rows, 1, IF limit < Len(rows) THEN limit ELSE Len(rows))

\* One entry of the list get_state_history returns, lines 124-128.
HistoryEntry(r) ==
  [state |-> JsonLoads(r.state), timestamp |-> r.timestamp, version |-> r.version]

\* Faulty variant of GetStateHistory: the WHERE clause is missing.
GetStateHistoryUnfiltered(agent_id, limit) ==
  LET rows == SqlLimit(OrderByTimestampDesc(state_history), limit)
  IN [i \in 1..Len(rows) |-> HistoryEntry(rows[i])]

\* get_state_history, lines 113-128: SELECT state, timestamp, version FROM
\* state_history WHERE agent_id = ? ORDER BY timestamp DESC LIMIT ?
GetStateHistory(agent_id, limit) ==
  LET rows == SqlLimit(OrderByTimestampDesc(HistoryOf(agent_id)), limit)
  IN [i \in 1..Len(rows) |-> HistoryEntry(rows[i])]

\* ------------------------------------------------------------- operations
\* The clock advances.
Tick ==
  /\ clock < MaxTime
  /\ clock' = clock + 1
  /\ UNCHANGED <<agent_states, state_history, seq, pc, loc, writer, txn, saved>>
  /\ UNCHANGED <<mgrVars, sideVars>>

\* save_state, lines 52-62: connect, read the current version, compute the next.
SaveStateRead(c, agent_id, state) ==
  /\ pc[c] = "closed"
  /\ seq < MaxSaves
  /\ pc' = [pc EXCEPT ![c] = "save_read"]
  /\ loc' = [loc EXCEPT ![c] = [NoLocals EXCEPT !.agent_id = agent_id,
                                               !.state = state,
                                               !.version = NextVersion(agent_states, agent_id)]]
  /\ UNCHANGED <<agent_states, state_history, seq, clock, writer, txn, saved>>
  /\ UNCHANGED <<mgrVars, sideVars>>

\* Faulty variant of SaveStateCurrent: the first write is committed at once.
SaveStateCurrentAutocommit(c) ==
  /\ pc[c] = "save_read"
  /\ writer = "none"
  /\ writer' = c
  /\ loc' = [loc EXCEPT ![c].now = clock]
  /\ agent_states' = InsertOrReplace(agent_states, loc[c].agent_id,
                        [state |-> JsonDumps(loc[c].state), timestamp |-> clock,
                         version |-> loc[c].version])
  /\ txn' = [agent_states |-> agent_states', state_history |-> state_history, seq |-> seq]
  /\ pc' = [pc EXCEPT ![c] = "save_cur"]
  /\ UNCHANGED <<state_history, seq, clock, saved>>
  /\ UNCHANGED <<mgrVars, sideVars>>

\* save_state, lines 64-69: now = datetime.now(); INSERT OR REPLACE INTO
\* agent_states.  The statement opens the transaction and takes the write lock;
\* it waits while another connection holds it.
SaveStateCurrent(c) ==
  /\ pc[c] = "save_read"
  /\ writer = "none"
  /\ writer' = c
  /\ loc' = [loc EXCEPT ![c].now = clock]
  /\ txn' = [agent_states |->
               InsertOrReplace(agent_states, loc[c].agent_id,
                  [state |-> JsonDumps(loc[c].state), timestamp |-> clock,
                   version |-> loc[c].version]),
             state_history |-> state_history,
             seq |-> seq]
  /\ pc' = [pc EXCEPT ![c] = "save_cur"]
  /\ UNCHANGED <<agent_states, state_history, seq, clock, saved>>
  /\ UNCHANGED <<mgrVars, sideVars>>

\* save_state, lines 71-75: INSERT INTO state_history, in the same transaction.
SaveStateHistory(c) ==
  /\ pc[c] = "save_cur"
  /\ writer = c
  /\ txn' = [txn EXCEPT
               !.state_history = HistoryInsert(txn.state_history,
                  [id |-> txn.seq + 1, agent_id |-> loc[c].agent_id,
                   state |-> JsonDumps(loc[c].state), timestamp |-> loc[c].now,
                   version |-> loc[c].version]),
               !.seq = txn.seq + 1]
  /\ pc' = [pc EXCEPT ![c] = "save_hist"]
  /\ UNCHANGED <<agent_states, state_history, seq, clock, loc, writer, saved>>
  /\ UNCHANGED <<mgrVars, sideVars>>

\* save_state, lines 77 and 83: conn.commit() publishes both writes; close.
SaveStateCommit(c) ==
  /\ pc[c] = "save_hist"
  /\ writer = c
  /\ agent_states' = txn.agent_states
  /\ state_history' = txn.state_history
  /\ seq' = txn.seq
  /\ saved' = [saved EXCEPT ![loc[c].agent_id] = @ + 1]
  /\ writer' = "none"
  /\ txn' = NoTxn
  /\ pc' = [pc EXCEPT ![c] = "closed"]
  /\ loc' = [loc EXCEPT ![c] = NoLocals]
  /\ UNCHANGED clock
  /\ UNCHANGED <<mgrVars, sideVars>>

\* clear_history, lines 186-198: connect and DELETE (one of the two statements).
ClearHistoryDelete(c, agent_id, before) ==
  /\ pc[c] = "closed"
  /\ writer = "none"
  /\ writer' = c
  /\ loc' = [loc EXCEPT ![c] = [NoLocals EXCEPT !.agent_id = agent_id, !.before = before]]
  /\ txn' = [agent_states |-> agent_states,
             state_history |-> HistoryDelete(state_history, agent_id, before),
             seq |-> seq]
  /\ pc' = [pc EXCEPT ![c] = "clear_del"]
  /\ UNCHANGED <<agent_states, state_history, seq, clock, saved>>
  /\ UNCHANGED <<mgrVars, sideVars>>

\* clear_history, lines 200 and 205: conn.commit(); close.
ClearHistoryCommit(c) ==
  /\ pc[c] = "clear_del"
  /\ writer = c
  /\ agent_states' = txn.agent_states
  /\ state_history' = txn.state_history
  /\ seq' = txn.seq
  /\ writer' = "none"
  /\ txn' = NoTxn
  /\ pc' = [pc EXCEPT ![c] = "closed"]
  /\ loc' = [loc EXCEPT ![c] = NoLocals]
  /\ UNCHANGED <<clock, saved>>
  /\ UNCHANGED <<mgrVars, sideVars>>

\* An exception (or the process dying) at any statement of an operation:
\* save_state lines 79-83, clear_history lines 202-205.  Nothing was committed;
\* conn.close() rolls the open transaction back and releases the lock.
Fail(c) ==
  /\ pc[c] # "closed"
  /\ pc' = [pc EXCEPT ![c] = "closed"]
  /\ loc' = [loc EXCEPT ![c] = NoLocals]
  /\ writer' = IF writer = c THEN "none" ELSE writer
  /\ txn' = IF writer = c THEN NoTxn ELSE txn
  /\ UNCHANGED <<agent_states, state_history, seq, clock, saved>>
  /\ UNCHANGED <<mgrVars, sideVars>>

\* One statement of one connection, its inputs drawn from the given sets.
Step(c, ids, dicts, dates) ==
  \/ \E agent_id \in ids, state \in dicts : SaveStateRead(c, agent_id, state)
  \/ SaveStateCurrent(c)
  \/ SaveStateHistory(c)
  \/ SaveStateCommit(c)
  \/ \E agent_id \in ids, before \in dates : ClearHistoryDelete(c, agent_id, before)
  \/ ClearHistoryCommit(c)
  \/ Fail(c)

\* The program as it runs: one event loop, and no StateManager coroutine awaits
\* between its statements, so the operations never overlap.
Next ==
  \/ Tick
  \/ \E c \in SerialConns : Step(c, AgentIds, Dicts, BeforeDates)

Spec == Init /\ [][Next]_vars

\* The store shared by two threads or processes: statements of the two
\* connections interleave, serialized only by SQLite's write lock.
NextConc ==
  \/ Tick
  \/ \E c \in Conns : Step(c, ConcAgentIds, ConcDicts, ConcDates)

SpecConc == Init /\ [][NextConc]_vars

\* ------------------------------------------------------------- agent manager
\* The keys of the dict, the keys in insertion order, and the value at a key.
Keys(reg) == {reg[i].agent_id : i \in 1..Len(reg)}
Ids(reg) == [i \in 1..Len(reg) |-> reg[i].agent_id]
AgentOf(reg, agent_id) == reg[CHOOSE i \in 1..Len(reg) : reg[i].agent_id = agent_id].agent
\* The elements of a list.
Range(s) == {s[i] : i \in 1..Len(s)}
\* The orders a set can be listed in: list(self.active_agents).
ListsOf(S) == {s \in [1..Cardinality(S) -> S] : Range(s) = S}

\* The tasks awaiting a method of the agent registered under an identity.
InFlight(agent_id, method) ==
  {t \in Tasks : tpc[t] = method /\ tloc[t].agent_id = agent_id}

\* The task's call ends: it returns, or an exception leaves it.  skipped are the
\* identities the call has left without calling their agent.
Done(t, op, call, agent_id, outcome, skipped) ==
  /\ tpc' = [tpc EXCEPT ![t] = "idle"]
  /\ tloc' = [tloc EXCEPT ![t] = NoTask]
  /\ ret' = [op |-> op, call |-> call, agent_id |-> agent_id,
             outcome |-> outcome, skipped |-> skipped]

\* Faulty variant of RegisterAgent: a registered identity is overwritten.
RegisterAgentOverwrite(t, agent_id, agent) ==
  /\ tpc[t] = "idle"
  /\ agents' = IF agent_id \in Keys(agents)
               THEN [i \in 1..Len(agents) |->
                       IF agents[i].agent_id = agent_id
                       THEN [agent_id |-> agent_id, agent |-> agent] ELSE agents[i]]
               ELSE Append(agents, [agent_id |-> agent_id, agent |-> agent])
  /\ Done(t, "register_agent", "register_agent", agent_id, "returned", {})
  /\ UNCHANGED <<active_agents, running>>
  /\ UNCHANGED <<storeVars, sideVars>>

\* register_agent, lines 54-60: ValueError for a registered identity, else
\* self.agents[agent_id] = agent.
RegisterAgent(t, agent_id, agent) ==
  /\ tpc[t] = "idle"
  /\ IF agent_id \in Keys(agents)
     THEN /\ Done(t, "register_agent", "register_agent", agent_id, "ValueError", {})
          /\ UNCHANGED agents
     ELSE /\ agents' = Append(agents, [agent_id |-> agent_id, agent |-> agent])
          /\ Done(t, "register_agent", "register_agent", agent_id, "returned", {})
  /\ UNCHANGED <<active_agents, running>>
  /\ UNCHANGED <<storeVars, sideVars>>

\* start_agent, lines 39-41, for a registered identity: agent = self.agents[agent_id];
\* await agent.initialize().  todo and size are the rest of the loop of
\* start_agents the call is made in, if it is.
EnterInitialize(t, op, agent_id, todo, size) ==
  /\ tpc' = [tpc EXCEPT ![t] = "initialize"]
  /\ tloc' = [tloc EXCEPT ![t] = [op |-> op, call |-> "start_agent", agent_id |-> agent_id,
                                  agent |-> AgentOf(agents, agent_id),
                                  todo |-> todo, size |-> size]]
  /\ UNCHANGED ret

\* Faulty variant of StartCall: the identity is not looked up in the registry.
StartCallUnchecked(t, op, agent_id) ==
  /\ tpc' = [tpc EXCEPT ![t] = "initialize"]
  /\ tloc' = [tloc EXCEPT ![t] = [op |-> op, call |-> "start_agent", agent_id |-> agent_id,
                                  agent |-> IF agent_id \in Keys(agents)
                                            THEN AgentOf(agents, agent_id) ELSE "",
                                  todo |-> <<>>, size |-> 0]]
  /\ UNCHANGED ret

\* start_agent, lines 36-41: ValueError for an identity that is not registered;
\* else initialize() is called, whether or not the agent is active.
StartCall(t, op, agent_id) ==
  IF agent_id \notin Keys(agents)
  THEN /\ Done(t, op, "start_agent", agent_id, "ValueError", {})
  ELSE EnterInitialize(t, op, agent_id, <<>>, 0)

\* A task calls start_agent(agent_id).
StartAgent(t, agent_id) ==
  /\ tpc[t] = "idle"
  /\ StartCall(t, "start_agent", agent_id)
  /\ UNCHANGED <<agents, active_agents, running>>
  /\ UNCHANGED <<storeVars, sideVars>>

\* start_agents, lines 25-26: for agent_id in self.agents: await
\* self.start_agent(agent_id).  The loop runs up to the first initialize().
StartAgents(t) ==
  /\ tpc[t] = "idle"
  /\ IF agents = <<>>
     THEN /\ Done(t, "start_agents", "start_agents", NoAgentId, "returned", {})
     ELSE EnterInitialize(t, "start_agents", Head(Ids(agents)), Tail(Ids(agents)), Len(agents))
  /\ UNCHANGED <<agents, active_agents, running>>
  /\ UNCHANGED <<storeVars, sideVars>>

\* start_agent, line 42, when initialize() returns: self.active_agents.add.
\* In start_agents the loop goes on: the dict iterator raises RuntimeError when
\* the dict has grown meanwhile, ends after the last key, or start_agent is
\* called for the next key.
InitializeReturn(t) ==
  /\ tpc[t] = "initialize"
  /\ tloc[t].call = "start_agent"
  /\ active_agents' = active_agents \cup {tloc[t].agent_id}
  /\ IF tloc[t].op # "start_agents"
     THEN /\ Done(t, tloc[t].op, "start_agent", tloc[t].agent_id, "returned", {})
     ELSE IF Len(agents) # tloc[t].size
     THEN /\ Done(t, "start_agents", "start_agents", tloc[t].agent_id, "RuntimeError",
                  Range(tloc[t].todo))
     ELSE IF tloc[t].todo = <<>>
     THEN /\ Done(t, "start_agents", "start_agents", tloc[t].agent_id, "returned", {})
     ELSE EnterInitialize(t, "start_agents", Head(tloc[t].todo), Tail(tloc[t].todo),
                          tloc[t].size)
  /\ UNCHANGED <<agents, running>>
  /\ UNCHANGED <<storeVars, sideVars>>

\* initialize() raises: nothing in start_agent, start_agents or process_event
\* catches it; BaseAgent.start logs it and raises it again (lines 22-24).
InitializeRaise(t) ==
  /\ tpc[t] = "initialize"
  /\ Done(t, tloc[t].op, tloc[t].call, tloc[t].agent_id, "AgentError", Range(tloc[t].todo))
  /\ UNCHANGED <<agents, active_agents, running>>
  /\ UNCHANGED <<storeVars, sideVars>>

\* The first identity of the list that is active, and those after it: stop_agent
\* returns at once for the others (lines 46-47).
RECURSIVE DropInactive(_, _)
DropInactive(todo, active) ==
  IF todo = <<>> \/ Head(todo) \in active THEN todo
  ELSE DropInactive(Tail(todo), active)

\* stop_agent, lines 49-50, for an active identity: agent = self.agents[agent_id];
\* await agent.cleanup().
EnterCleanup(t, op, agent_id, todo) ==
  /\ tpc' = [tpc EXCEPT ![t] = "cleanup"]
  /\ tloc' = [tloc EXCEPT ![t] = [op |-> op, call |-> "stop_agent", agent_id |-> agent_id,
                                  agent |-> AgentOf(agents, agent_id),
                                  todo |-> todo, size |-> 0]]
  /\ UNCHANGED ret

\* Faulty variant of StopCall: cleanup() is called for an inactive agent too.
StopCallAlways(t, op, agent_id) ==
  IF agent_id \notin Keys(agents)
  THEN /\ Done(t, op, "stop_agent", agent_id, "returned", {})
  ELSE EnterCleanup(t, op, agent_id, <<>>)

\* stop_agent, lines 46-50: return for an identity that is not active, registered
\* or not; else cleanup() is called.
StopCall(t, op, agent_id) ==
  IF agent_id \notin active_agents
  THEN /\ Done(t, op, "stop_agent", agent_id, "returned", {agent_id})
  ELSE EnterCleanup(t, op, agent_id, <<>>)

\* A task calls stop_agent(agent_id).
StopAgent(t, agent_id) ==
  /\ tpc[t] = "idle"
  /\ StopCall(t, "stop_agent", agent_id)
  /\ UNCHANGED <<agents, active_agents, running>>
  /\ UNCHANGED <<storeVars, sideVars>>

\* stop_agents, lines 31-32: the loop over list(self.active_agents), from the
\* identities left in todo and the active set as it is now, up to the next
\* cleanup().
StopLoop(t, todo, active) ==
  LET rest == DropInactive(todo, active)
  IN IF rest = <<>>
     THEN /\ Done(t, "stop_agents", "stop_agents", NoAgentId, "returned", {})
     ELSE EnterCleanup(t, "stop_agents", Head(rest), Tail(rest))

\* A task calls stop_agents(); a set is listed in any order.
StopAgents(t) ==
  /\ tpc[t] = "idle"
  /\ \E todo \in ListsOf(active_agents) : StopLoop(t, todo, active_agents)
  /\ UNCHANGED <<agents, active_agents, running>>
  /\ UNCHANGED <<storeVars, sideVars>>

\* stop_agent, line 51, when cleanup() returns: self.active_agents.remove, a
\* KeyError when another stop has removed the identity meanwhile.  In
\* stop_agents the loop goes on.
CleanupReturn(t) ==
  /\ tpc[t] = "cleanup"
  /\ tloc[t].call = "stop_agent"
  /\ IF tloc[t].agent_id \notin active_agents
     THEN /\ Done(t, tloc[t].op, "stop_agent", tloc[t].agent_id, "KeyError", Range(tloc[t].todo))
          /\ UNCHANGED active_agents
     ELSE /\ active_agents' = active_agents \ {tloc[t].agent_id}
          /\ IF tloc[t].op = "stop_agents"
             THEN StopLoop(t, tloc[t].todo, active_agents')
             ELSE /\ Done(t, tloc[t].op, "stop_agent", tloc[t].agent_id, "returned", {})
  /\ UNCHANGED <<agents, running>>
  /\ UNCHANGED <<storeVars, sideVars>>

\* Faulty variant of CleanupRaise: the identity is removed from the active set
\* although its cleanup() has failed.
CleanupRaiseRemoves(t) ==
  /\ tpc[t] = "cleanup"
  /\ Done(t, tloc[t].op, tloc[t].call, tloc[t].agent_id, "AgentError", Range(tloc[t].todo))
  /\ active_agents' = active_agents \ {tloc[t].agent_id}
  /\ UNCHANGED <<agents, running>>
  /\ UNCHANGED <<storeVars, sideVars>>

\* cleanup() raises: nothing in stop_agent, stop_agents, process_event or
\* BaseAgent.stop catches it.
CleanupRaise(t) ==
  /\ tpc[t] = "cleanup"
  /\ Done(t, tloc[t].op, tloc[t].call, tloc[t].agent_id, "AgentError", Range(tloc[t].todo))
  /\ UNCHANGED <<agents, active_agents, running>>
  /\ UNCHANGED <<storeVars, sideVars>>

\* Faulty variant of ProcessEvent: the event's agent_id is not looked up first.
ProcessEventUnchecked(t, event_type, agent_id) ==
  /\ tpc[t] = "idle"
  /\ IF event_type = "start" THEN StartCall(t, "process_event", agent_id)
     ELSE IF event_type = "stop" THEN StopCall(t, "process_event", agent_id)
     ELSE IF event_type = "update"
     THEN /\ tpc' = [tpc EXCEPT ![t] = "cycle"]
          /\ tloc' = [tloc EXCEPT ![t] = [op |-> "process_event", call |-> "process_cycle",
                                          agent_id |-> agent_id,
                                          agent |-> IF agent_id \in Keys(agents)
                                                    THEN AgentOf(agents, agent_id) ELSE "",
                                          todo |-> <<>>, size |-> 0]]
          /\ UNCHANGED ret
     ELSE Done(t, "process_event", "process_event", agent_id, "returned", {})
  /\ UNCHANGED <<agents, active_agents, running>>
  /\ UNCHANGED <<storeVars, sideVars>>

\* process_event, lines 76-88: return for an event without a registered
\* agent_id; start_agent, stop_agent or agent.process_cycle() by event type; no
\* branch for another type.
ProcessEvent(t, event_type, agent_id) ==
  /\ tpc[t] = "idle"
  /\ IF agent_id = NoAgentId \/ agent_id \notin Keys(agents)
     THEN /\ Done(t, "process_event", "process_event", agent_id, "returned", {})
     ELSE IF event_type = "start" THEN StartCall(t, "process_event", agent_id)
     ELSE IF event_type = "stop" THEN StopCall(t, "process_event", agent_id)
     ELSE IF event_type = "update"
     THEN /\ tpc' = [tpc EXCEPT ![t] = "cycle"]
          /\ tloc' = [tloc EXCEPT ![t] = [op |-> "process_event", call |-> "process_cycle",
                                          agent_id |-> agent_id,
                                          agent |-> AgentOf(agents, agent_id),
                                          todo |-> <<>>, size |-> 0]]
          /\ UNCHANGED ret
     ELSE /\ Done(t, "process_event", "process_event", agent_id, "returned", {})
  /\ UNCHANGED <<agents, active_agents, running>>
  /\ UNCHANGED <<storeVars, sideVars>>

\* BaseAgent.start, lines 16-18: self.running = True; await self.initialize().
BaseStart(t, agent) ==
  /\ tpc[t] = "idle"
  /\ running' = [running EXCEPT ![agent] = TRUE]
  /\ tpc' = [tpc EXCEPT ![t] = "initialize"]
  /\ tloc' = [tloc EXCEPT ![t] = [NoTask EXCEPT !.op = "start", !.call = "start",
                                               !.agent = agent]]
  /\ UNCHANGED <<agents, active_agents, ret>>
  /\ UNCHANGED <<storeVars, sideVars>>

\* BaseAgent.start, lines 19-20: while self.running: await self.process_cycle();
\* reached when initialize() returns and when the sleep of line 21 is over.
RunLoop(t) ==
  /\ tpc[t] \in {"initialize", "sleep"}
  /\ tloc[t].call = "start"
  /\ IF running[tloc[t].agent]
     THEN /\ tpc' = [tpc EXCEPT ![t] = "cycle"]
          /\ UNCHANGED <<tloc, ret>>
     ELSE Done(t, "start", "start", NoAgentId, "returned", {})
  /\ UNCHANGED <<agents, active_agents, running>>
  /\ UNCHANGED <<storeVars, sideVars>>

\* process_cycle() returns: process_event returns (line 88); the run loop goes
\* to await asyncio.sleep(1) (line 21).
CycleReturn(t) ==
  /\ tpc[t] = "cycle"
  /\ IF tloc[t].call = "start"
     THEN /\ tpc' = [tpc EXCEPT ![t] = "sleep"]
          /\ UNCHANGED <<tloc, ret>>
     ELSE Done(t, tloc[t].op, "process_cycle", tloc[t].agent_id, "returned", {})
  /\ UNCHANGED <<agents, active_agents, running>>
  /\ UNCHANGED <<storeVars, sideVars>>

\* Faulty variant of CycleCaught: the exception leaves process_cycle();
\* process_event does not catch it and BaseAgent.start logs it and raises it
\* again (lines 22-24).
CycleRaise(t) ==
  /\ tpc[t] = "cycle"
  /\ Done(t, tloc[t].op, tloc[t].call, tloc[t].agent_id, "AgentError", {})
  /\ UNCHANGED <<agents, active_agents, running>>
  /\ UNCHANGED <<storeVars, sideVars>>

\* The work of a process_cycle() raises an Exception: every agent class has the
\* body of process_cycle in try: ... except Exception as e:
\* self.logger.error(...) (goal_setting_agent.py lines 17-24), so the cycle logs
\* it and returns; process_event returns, the run loop goes to its sleep.
CycleCaught(t) ==
  /\ tpc[t] = "cycle"
  /\ IF tloc[t].call = "start"
     THEN /\ tpc' = [tpc EXCEPT ![t] = "sleep"]
          /\ ret' = [op |-> "start", call |-> "process_cycle",
                     agent_id |-> tloc[t].agent_id, outcome |-> "logged",
                     skipped |-> {}]
          /\ UNCHANGED tloc
     ELSE Done(t, tloc[t].op, "process_cycle", tloc[t].agent_id, "logged", {})
  /\ UNCHANGED <<agents, active_agents, running>>
  /\ UNCHANGED <<storeVars, sideVars>>

\* BaseAgent.stop, lines 28-29: self.running = False; await self.cleanup().
BaseStop(t, agent) ==
  /\ tpc[t] = "idle"
  /\ running' = [running EXCEPT ![agent] = FALSE]
  /\ tpc' = [tpc EXCEPT ![t] = "cleanup"]
  /\ tloc' = [tloc EXCEPT ![t] = [NoTask EXCEPT !.op = "stop", !.call = "stop",
                                               !.agent = agent]]
  /\ UNCHANGED <<agents, active_agents, ret>>
  /\ UNCHANGED <<storeVars, sideVars>>

\* BaseAgent.stop when cleanup() returns.
BaseStopReturn(t) ==
  /\ tpc[t] = "cleanup"
  /\ tloc[t].call = "stop"
  /\ Done(t, "stop", "stop", NoAgentId, "returned", {})
  /\ UNCHANGED <<agents, active_agents, running>>
  /\ UNCHANGED <<storeVars, sideVars>>

\* An AttributeError, a value apart from every dict.
AttributeError == [AttributeError |-> "AttributeError"]

\* The mappings restore_state is called with: blobs under some of the identities.
StateMaps == UNION {[S -> Dicts] : S \in SUBSET AgentNames}

\* get_states, lines 115-118: states = {}; for agent_id, agent in
\* self.agents.items(): states[agent_id] = await agent.get_state().  The loop is
\* over every registered agent.  No agent class of the repository, BaseAgent
\* included, defines get_state, so the first iteration raises AttributeError.
GetStates(reg) == IF reg = <<>> THEN EmptyDict ELSE AttributeError

\* restore_state, lines 122-124: for agent_id, state in states.items(): if
\* agent_id in self.agents: await self.agents[agent_id].restore_state(state).
\* No agent class defines restore_state: the first identity that is registered
\* raises AttributeError, and no agent has imported a blob.
RestoreState(reg, states) ==
  IF DOMAIN states \cap Keys(reg) = {}
  THEN [outcome |-> "returned", imported |-> {}]
  ELSE [outcome |-> "AttributeError", imported |-> {}]

\* The tasks of one event loop calling the manager and the agents: a step of a
\* task runs it to its next await.
NextMgr ==
  \E t \in Tasks :
    \/ \E agent_id \in AgentNames, agent \in Instances : RegisterAgent(t, agent_id, agent)
    \/ \E agent_id \in AgentNames : StartAgent(t, agent_id)
    \/ \E agent_id \in AgentNames : StopAgent(t, agent_id)
    \/ StartAgents(t)
    \/ StopAgents(t)
    \/ \E event_type \in EventTypes, agent_id \in AgentNames \cup {NoAgentId} :
         ProcessEvent(t, event_type, agent_id)
    \/ InitializeReturn(t)
    \/ InitializeRaise(t)
    \/ CleanupReturn(t)
    \/ CleanupRaise(t)
    \/ CycleReturn(t)
    \/ CycleCaught(t)

SpecMgr == Init /\ [][NextMgr]_vars

\* SpecMgr on a fair event loop: a task that awaits a method of an agent is
\* resumed, the method ending one way or the other.  Calls of the manager and
\* events come from outside and are under no obligation to come.
FairSpecMgr ==
  /\ SpecMgr
  /\ \A t \in Tasks :
       /\ WF_vars(InitializeReturn(t) \/ InitializeRaise(t))
       /\ WF_vars(CleanupReturn(t) \/ CleanupRaise(t))
       /\ WF_vars(CycleReturn(t) \/ CycleCaught(t))

\* The tasks of one event loop running agents by BaseAgent.start and
\* BaseAgent.stop, which the manager does not call.
NextAgent ==
  \E t \in Tasks :
    \/ \E agent \in Instances : BaseStart(t, agent)
    \/ InitializeRaise(t)
    \/ RunLoop(t)
    \/ CycleReturn(t)
    \/ CycleCaught(t)
    \/ \E agent \in Instances : BaseStop(t, agent)
    \/ BaseStopReturn(t)
    \/ CleanupRaise(t)

SpecAgent == Init /\ [][NextAgent]_vars

\* SpecAgent on a fair event loop: an awaited initialize(), process_cycle(),
\* sleep or cleanup() ends and its task is resumed.  Calls of start and stop
\* come from outside and are under no obligation to come.
FairSpecAgent ==
  /\ SpecAgent
  /\ \A t \in Tasks :
       /\ WF_vars(RunLoop(t) \/ InitializeRaise(t))
       /\ WF_vars(CycleReturn(t) \/ CycleCaught(t))
       /\ WF_vars(BaseStopReturn(t) \/ CleanupRaise(t))


\* ------------------------------------------------------------- framework
\* The task that runs the Framework's coroutines.
FwTasks == {"t1"}
\* The save_state call of save_states that meets a storage error, if one does.
Failing == {"none", "agents", "progress"}

\* save_state, lines 52-77, run from connect to commit with no other connection
\* open: the tables after it.
Saved(store, agent_id, state) ==
  LET version == NextVersion(store.agent_states, agent_id)
  IN [agent_states |-> InsertOrReplace(store.agent_states, agent_id,
                          [state |-> JsonDumps(state), timestamp |-> clock,
                           version |-> version]),
      state_history |-> HistoryInsert(store.state_history,
                          [id |-> store.seq + 1, agent_id |-> agent_id,
                           state |-> JsonDumps(state), timestamp |-> clock,
                           version |-> version]),
      seq |-> store.seq + 1,
      saved |-> [store.saved EXCEPT ![agent_id] = @ + 1]]

\* Faulty variant of FwSaveStates: an exception of get_states or save_state
\* leaves save_states and Framework.stop, whose except raises it again.
FwSaveStatesRaising(t, progress_state, failing) ==
  LET store0 == [agent_states |-> agent_states, state_history |-> state_history,
                 seq |-> seq, saved |-> saved]
      snapshot == GetStates(agents)
      raised == snapshot = AttributeError \/ failing # "none"
      store1 == IF snapshot = AttributeError \/ failing = "agents"
                THEN store0 ELSE Saved(store0, "agents", snapshot)
      store2 == IF raised THEN store1 ELSE Saved(store1, "progress", progress_state)
  IN /\ store2.seq <= MaxSaves
     /\ agent_states' = store2.agent_states
     /\ state_history' = store2.state_history
     /\ seq' = store2.seq
     /\ saved' = store2.saved
     /\ Done(t, "framework_stop", "save_states", NoAgentId,
             IF raised THEN "StorageError" ELSE "returned", {})

\* Framework.save_states, framework.py lines 91-103, at the end of
\* Framework.stop (lines 83-85): get_states() and save_state("agents", ...), then
\* the progress tracker's state and save_state("progress", ...); the first
\* exception ends the try, is logged and is not raised again ("logged").  No
\* coroutine in it awaits anything that suspends.
FwSaveStates(t, progress_state, failing) ==
  LET store0 == [agent_states |-> agent_states, state_history |-> state_history,
                 seq |-> seq, saved |-> saved]
      snapshot == GetStates(agents)
      store1 == IF snapshot = AttributeError \/ failing = "agents"
                THEN store0 ELSE Saved(store0, "agents", snapshot)
      store2 == IF snapshot = AttributeError \/ failing \in {"agents", "progress"}
                THEN store1 ELSE Saved(store1, "progress", progress_state)
  IN /\ store2.seq <= MaxSaves
     /\ agent_states' = store2.agent_states
     /\ state_history' = store2.state_history
     /\ seq' = store2.seq
     /\ saved' = store2.saved
     /\ Done(t, "framework_stop", "save_states", NoAgentId,
             IF snapshot = AttributeError \/ failing # "none"
             THEN "logged" ELSE "returned", {})

\* Framework.stop, lines 80-83: the loop of stop_agents up to the next
\* cleanup(), and save_states when the loop is over.
FwStopLoop(t, todo, active, progress_state, failing) ==
  LET rest == DropInactive(todo, active)
  IN IF rest = <<>>
     THEN FwSaveStates(t, progress_state, failing)
     ELSE /\ EnterCleanup(t, "framework_stop", Head(rest), Tail(rest))
          /\ UNCHANGED <<agent_states, state_history, seq, saved>>

\* A call of Framework.stop().
FrameworkStop(t) ==
  /\ tpc[t] = "idle"
  /\ \E todo \in ListsOf(active_agents), progress_state \in Dicts, failing \in Failing :
       FwStopLoop(t, todo, active_agents, progress_state, failing)
  /\ UNCHANGED <<agents, active_agents, running>>
  /\ UNCHANGED <<clock, pc, loc, writer, txn, sideVars>>

\* Framework.stop when a cleanup() of its stop_agents returns: stop_agent
\* line 51, then the loop goes on.
FwCleanupReturn(t) ==
  /\ tpc[t] = "cleanup"
  /\ tloc[t].op = "framework_stop"
  /\ IF tloc[t].agent_id \notin active_agents
     THEN /\ Done(t, "framework_stop", "stop_agent", tloc[t].agent_id, "KeyError",
                  Range(tloc[t].todo))
          /\ UNCHANGED <<active_agents, agent_states, state_history, seq, saved>>
     ELSE /\ active_agents' = active_agents \ {tloc[t].agent_id}
          /\ \E progress_state \in Dicts, failing \in Failing :
               FwStopLoop(t, tloc[t].todo, active_agents', progress_state, failing)
  /\ UNCHANGED <<agents, running>>
  /\ UNCHANGED <<clock, pc, loc, writer, txn, sideVars>>

\* How a statement of the state store fails: sqlite3.connect raises, or a
\* statement does.
StorageFaults == {"connect", "execute"}
UnboundLocalError == [UnboundLocalError |-> "UnboundLocalError"]

\* load_state, state_manager.py lines 85-105, when something may fail: a failed
\* statement is logged and None returned (lines 101-103); a failed connect is
\* logged too, and then conn.close() of the finally block raises
\* UnboundLocalError.
LoadStateCall(agent_id, failing, fault) ==
  IF failing = agent_id
  THEN IF fault = "connect" THEN UnboundLocalError ELSE None
  ELSE LoadState(agent_id)

\* "if agent_states:" of load_states: None and the empty dict are falsy.
Truthy(state) == state # None /\ state # EmptyDict

\* load_states, framework.py lines 41-55: whether its except clause runs.
\* restore_state of the progress tracker (progress.py lines 109-113) only
\* reads the dict.
LoadStatesLogs(failing, fault) ==
  LET loaded == LoadStateCall("agents", failing, fault)
  IN \/ loaded = UnboundLocalError
     \/ /\ Truthy(loaded)
        /\ RestoreState(agents, loaded).outcome = "AttributeError"
     \/ LoadStateCall("progress", failing, fault) = UnboundLocalError

\* Framework.initialize, lines 22-39: the three components' initialize() are
\* stubs, then load_states; nothing of the manager or the store is written.
FrameworkInitialize(t, failing, fault) ==
  /\ tpc[t] = "idle"
  /\ Done(t, "framework_initialize", "load_states", NoAgentId,
          IF LoadStatesLogs(failing, fault) THEN "logged" ELSE "returned", {})
  /\ UNCHANGED <<agents, active_agents, running>>
  /\ UNCHANGED <<storeVars, sideVars>>

\* event.get("type") of an event given to Framework.process_event: none, the
\* three the Framework routes, and the three the manager acts on.
NoType == ""
FwEventTypes == {NoType, "agent_event", "progress_event", "display_event",
                 "start", "stop", "update"}

\* Faulty variant of FwProcessEvent: every event that has a type is forwarded
\* to the manager.
FwProcessEventForwardsAll(t, event_type, agent_id) ==
  /\ tpc[t] = "idle"
  /\ IF event_type = NoType
     THEN Done(t, "framework_process_event", "process_event", agent_id, "ValueError", {})
     ELSE ProcessEvent(t, event_type, agent_id)
  /\ UNCHANGED <<agents, active_agents, running>>
  /\ UNCHANGED <<storeVars, sideVars>>

\* Framework.process_event, lines 126-144: ValueError for an event without a
\* type (logged and raised again); an "agent_event" goes to the manager's
\* process_event as it is; a progress or display event goes to that component,
\* which acts on types of its own and touches no agent; any other type is
\* logged as unknown.
FwProcessEvent(t, event_type, agent_id) ==
  /\ tpc[t] = "idle"
  /\ IF event_type = NoType
     THEN Done(t, "framework_process_event", "process_event", agent_id, "ValueError", {})
     ELSE IF event_type = "agent_event"
     THEN ProcessEvent(t, event_type, agent_id)
     ELSE Done(t, "framework_process_event", "process_event", agent_id, "returned", {})
  /\ UNCHANGED <<agents, active_agents, running>>
  /\ UNCHANGED <<storeVars, sideVars>>

\* The orchestrator: agents are registered, Framework.start (lines 57-72) awaits
\* start_agents, Framework.stop stops them and saves; the Framework's
\* coroutines run one after another in one task.  No property of the
\* orchestrator reads a timestamp, so the clock stands still here and every
\* row it saves carries the same timestamp.
NextFw ==
  \E t \in FwTasks :
    \/ \E agent_id \in AgentNames, agent \in Instances : RegisterAgent(t, agent_id, agent)
    \/ StartAgents(t)
    \/ InitializeReturn(t)
    \/ InitializeRaise(t)
    \/ \E failing \in Failing, fault \in StorageFaults :
         FrameworkInitialize(t, failing, fault)
    \/ \E event_type \in FwEventTypes, agent_id \in AgentNames \cup {NoAgentId} :
         FwProcessEvent(t, event_type, agent_id)
    \/ FrameworkStop(t)
    \/ FwCleanupReturn(t)
    \/ CleanupRaise(t)

SpecFw == Init /\ [][NextFw]_vars

\* ------------------------------------------------------------- cache
\* The last instant of the clock in the runs of the cache, in sub-second units.
MaxCacheTime == 4
CacheKeys == {"k1", "k2"}
\* The values cached (any JSON value; two mappings here).
CacheValues == {[a |-> 0], [a |-> 1]}
\* The expiry argument of set, in seconds: None, or a number.
NoTtl == -1
Ttls == {NoTtl, 0, 1}
\* cache_duration, the constructor's default (line 9), in seconds.
CacheDuration == 3600
\* The seconds the local time of the process may be ahead of UTC: the zone is
\* the environment's.
UtcOffsets == {-3600, 0, 3600}
\* What goes wrong in a call: nothing, sqlite3.connect raises, or the statement
\* (or the commit) raises.
CacheFaults == {"none", "connect", "execute"}

\* SQLite's datetime('now'): the UTC time, where datetime.now() is local.
SqlNow == clock - utcoffset * SubsPerSec

\* set, line 48: now + timedelta(seconds=expiry or self.cache_duration); 0 is
\* falsy as None is.
ExpiryTime(now, expiry) ==
  now + (IF expiry = NoTtl \/ expiry = 0 THEN CacheDuration ELSE expiry) * SubsPerSec

\* WHERE datetime('now') < datetime(expiry): both sides cut to whole seconds,
\* the one UTC and the other as isoformat() of the local time wrote it.
Unexpired(row) == SqlDatetime(SqlNow) < SqlDatetime(row.expiry)

\* get, lines 67-75: the row of the key if unexpired, its value decoded.
CacheGet(tbl, key) ==
  IF key \in DOMAIN tbl /\ Unexpired(tbl[key])
  THEN JsonLoads(tbl[key].value)
  ELSE None

\* DELETE FROM engagement_cache WHERE key = ?
CacheDeleteRow(tbl, key) == [k \in DOMAIN tbl \ {key} |-> tbl[k]]

\* DELETE FROM engagement_cache WHERE datetime('now') >= datetime(expiry)
CacheDeleteExpired(tbl) == [k \in {x \in DOMAIN tbl : Unexpired(tbl[x])} |-> tbl[k]]

\* The try/except/finally every call of the cache has (lines 43-59): a failed
\* statement is logged and the connection closed; a failed connect is logged
\* too, and then conn.close() in the finally block finds conn unbound and
\* raises UnboundLocalError out of the call.
CacheEnd(op, key, fault, value) ==
  cres' = [op |-> op, key |-> key, fault |-> fault, value |-> value,
           outcome |-> IF fault = "connect" THEN "UnboundLocalError"
                       ELSE IF fault = "execute" THEN "logged" ELSE "returned",
           opened |-> IF fault = "connect" THEN 0 ELSE 1,
           closed |-> IF fault = "connect" THEN 0 ELSE 1]

\* An EngagementCache exists: its constructor has returned.
Constructed == cres.op # "" /\ ~(cres.op = "init" /\ cres.outcome = "UnboundLocalError")

\* EngagementCache(), lines 9-13 and initialize_cache, in a process of some
\* time zone; the table exists from an earlier run.
EngagementCacheInit(offset, fault) ==
  /\ ~Constructed
  /\ fault \in {"none", "connect"}
  /\ utcoffset' = offset
  /\ CacheEnd("init", "", fault, None)
  /\ UNCHANGED <<cache, entries>>
  /\ UNCHANGED <<storeVars, mgrVars, msgVars>>

\* set, lines 41-59.
CacheSet(key, value, expiry, fault) ==
  /\ Constructed
  /\ IF fault = "none"
     THEN /\ cache' = InsertOrReplace(cache, key,
                        [value |-> JsonDumps(value), timestamp |-> clock,
                         expiry |-> ExpiryTime(clock, expiry)])
          /\ entries' = InsertOrReplace(entries, key,
                          [value |-> value, created_at |-> clock, ttl |-> expiry,
                           expires_at |-> ExpiryTime(clock, expiry)])
     ELSE UNCHANGED <<cache, entries>>
  /\ CacheEnd("set", key, fault, None)
  /\ UNCHANGED utcoffset
  /\ UNCHANGED <<storeVars, mgrVars, msgVars>>

\* get, lines 61-81.
CacheGetCall(key, fault) ==
  /\ Constructed
  /\ CacheEnd("get", key, fault, IF fault = "none" THEN CacheGet(cache, key) ELSE None)
  /\ UNCHANGED <<cache, utcoffset, entries>>
  /\ UNCHANGED <<storeVars, mgrVars, msgVars>>

\* delete, lines 83-95.
CacheDelete(key, fault) ==
  /\ Constructed
  /\ IF fault = "none"
     THEN /\ cache' = CacheDeleteRow(cache, key)
          /\ entries' = CacheDeleteRow(entries, key)
     ELSE UNCHANGED <<cache, entries>>
  /\ CacheEnd("delete", key, fault, None)
  /\ UNCHANGED utcoffset
  /\ UNCHANGED <<storeVars, mgrVars, msgVars>>

\* clear_expired, lines 97-112.
ClearExpired(fault) ==
  /\ Constructed
  /\ cache' = IF fault = "none" THEN CacheDeleteExpired(cache) ELSE cache
  /\ CacheEnd("clear_expired", "", fault, None)
  /\ UNCHANGED <<utcoffset, entries>>
  /\ UNCHANGED <<storeVars, mgrVars, msgVars>>

\* The clock advances under the cache.
CacheTick ==
  /\ clock < MaxCacheTime
  /\ clock' = clock + 1
  /\ UNCHANGED <<agent_states, state_history, seq, pc, loc, writer, txn, saved>>
  /\ UNCHANGED <<mgrVars, sideVars>>

\* The cache's methods are synchronous: its calls run one after another.
NextCache ==
  \/ CacheTick
  \/ \E offset \in UtcOffsets, fault \in CacheFaults : EngagementCacheInit(offset, fault)
  \/ \E key \in CacheKeys, value \in CacheValues, expiry \in Ttls, fault \in CacheFaults :
       CacheSet(key, value, expiry, fault)
  \/ \E key \in CacheKeys, fault \in CacheFaults : CacheGetCall(key, fault)
  \/ \E key \in CacheKeys, fault \in CacheFaults : CacheDelete(key, fault)
  \/ \E fault \in CacheFaults : ClearExpired(fault)

SpecCache == Init /\ [][NextCache]_vars

\* ------------------------------------------------------------- messages
\* The calls of send_message in a run.
MaxSent == 3
\* The message argument of send_message.
Payloads == {"m1", "m2"}

\* send_message, lines 46-50: the message is written to the debug log, and
\* that is all ("Message bus implementation would go here"): nothing is
\* queued for target_agent.
SendMessage(sender, target_agent, message) ==
  /\ Len(sent) < MaxSent
  /\ sent' = Append(sent, [sender |-> sender, target_agent |-> target_agent,
                           message |-> message])
  /\ UNCHANGED inbox
  /\ UNCHANGED <<storeVars, mgrVars, cacheVars>>

\* The agents sending messages to one another; no code of the repository
\* receives or consumes a message.
NextMsg ==
  \E sender \in AgentNames, target_agent \in AgentNames, message \in Payloads :
    SendMessage(sender, target_agent, message)

SpecMsg == Init /\ [][NextMsg]_vars

\* ------------------------------------------------------------- claims
\* The versions of an identity's history rows.
VersionsOf(agent_id) == {r.version : r \in HistoryOf(agent_id)}
\* No operation is in flight.
AllClosed == \A c \in Conns : pc[c] = "closed"

\* C1: for every identity, the k-th successful save_state writes version k: the
\* current row carries the number of committed saves, and the history rows of
\* the identity carry, in the order they were written, strictly increasing
\* versions with no gap and no repeat, the newest being the number of saves.
C1_VersionsGapFree ==
  \A a \in AgentIds :
    /\ (a \in DOMAIN agent_states) <=> (saved[a] > 0)
    /\ a \in DOMAIN agent_states => agent_states[a].version = saved[a]
    /\ \A r, q \in HistoryOf(a) : r.id < q.id => r.version < q.version
    /\ \A r \in HistoryOf(a) :
         /\ r.version \in 1..saved[a]
         /\ \A v \in (r.version)..saved[a] : v \in VersionsOf(a)

\* C1 witness: an identity saved MaxSaves times whose history holds 1..MaxSaves.
C1_Witness ==
  \E a \in AgentIds : saved[a] = MaxSaves /\ VersionsOf(a) = 1..MaxSaves

C3_TablesAlwaysAgree ==
  \A a \in AgentIds :
    /\ HistoryOf(a) # {} => a \in DOMAIN agent_states
    /\ a \in DOMAIN agent_states
         => /\ HistoryOf(a) # {}
            /\ \A r \in HistoryOf(a) : r.version <= agent_states[a].version
            /\ agent_states[a].version \in VersionsOf(a)

\* The two tables agree on the latest version of every identity that still has
\* history rows: the current row carries the version, blob and timestamp of
\* the identity's most recently written history row.
C3_AgreeWhereHistory ==
  \A a \in AgentIds :
    /\ HistoryOf(a) # {} => a \in DOMAIN agent_states
    /\ \A r \in HistoryOf(a) :
         (\A q \in HistoryOf(a) : q.id <= r.id)
           => /\ agent_states[a].version = r.version
              /\ agent_states[a].state = r.state
              /\ agent_states[a].timestamp = r.timestamp

\* A step of save_state that ends the call without committing.
C3_SaveAborts(c) ==
  /\ pc[c] \in {"save_read", "save_cur", "save_hist"}
  /\ pc'[c] = "closed"
  /\ saved' = saved

\* C3 (amended): save_state is atomic.  A save that is interrupted or fails at
\* any step changes neither table; the current row changes only in the step
\* that commits a save, together with the history row of the same blob,
\* version and timestamp; and the tables agree on the latest version of every
\* identity that still has history rows.
C3_SaveAtomic ==
  [][ /\ \A c \in Conns : C3_SaveAborts(c) =>
           /\ agent_states' = agent_states
           /\ state_history' = state_history
      /\ \A a \in DOMAIN agent_states' :
           (a \notin DOMAIN agent_states \/ agent_states'[a] # agent_states[a])
             => /\ \E c \in Conns : pc[c] = "save_hist" /\ pc'[c] = "closed"
                /\ \E r \in state_history' \ state_history :
                     /\ r.agent_id = a
                     /\ r.state = agent_states'[a].state
                     /\ r.version = agent_states'[a].version
                     /\ r.timestamp = agent_states'[a].timestamp
      /\ C3_AgreeWhereHistory' ]_vars

\* C3 witness: a save that has made both writes and not committed; the
\* committed tables still hold the identity's previous version.
C3_Witness ==
  \E c \in Conns :
    /\ pc[c] = "save_hist"
    /\ loc[c].agent_id \in DOMAIN agent_states
    /\ txn.agent_states # agent_states
    /\ txn.state_history # state_history
    /\ agent_states[loc[c].agent_id].version \in VersionsOf(loc[c].agent_id)

\* C4: two overlapping save_state calls for one identity serialize: every
\* committed save gets a version of its own, so no two history rows of an
\* identity share a version and the current version is the number of saves.
C4_ConcurrentSavesSerialize ==
  \A a \in AgentIds :
    /\ \A r, q \in HistoryOf(a) : r.id # q.id => r.version # q.version
    /\ a \in DOMAIN agent_states => agent_states[a].version = saved[a]

\* C5: diff is anti-symmetric: for two distinct versions in history, what
\* compare_states(id, v1, v2) reports as added is what compare_states(id, v2, v1)
\* reports as removed, and the other way round.
C5_DiffAntiSymmetric ==
  \A a \in AgentIds : \A v1, v2 \in VersionsOf(a) :
    v1 # v2 =>
      /\ CompareStates(a, v1, v2).added = CompareStates(a, v2, v1).removed
      /\ CompareStates(a, v1, v2).removed = CompareStates(a, v2, v1).added

\* C6: diff of an existing version with itself is a result whose added,
\* removed and modified are all empty.
C6_DiffSameVersionEmpty ==
  \A a \in AgentIds : \A v \in VersionsOf(a) :
    CompareStates(a, v, v) = [added |-> <<>>, removed |-> <<>>, modified |-> <<>>]

\* The version numbers a caller may ask for: those saved, and one never saved.
C7_Versions == 0..(MaxSaves + 1)

C8_BlobAt(a, v) == JsonLoads((CHOOSE r \in HistoryOf(a) : r.version = v).state)

\* C8: for two distinct existing versions a and b, in either numeric order,
\* diff(id, a, b) is the difference from the blob saved at a to the blob saved
\* at b: added = keys of b not in a, removed = keys of a not in b, modified =
\* keys of both with different values.
C8_DiffFromAToB ==
  \A a \in AgentIds : \A va, vb \in VersionsOf(a) :
    va # vb => CompareStates(a, va, vb) = Differences(C8_BlobAt(a, va), C8_BlobAt(a, vb))

\* The rows prune(identity, before) is to delete.
C9_ToDelete(agent_id, before) ==
  {r \in state_history :
     r.agent_id = agent_id /\ (before = NoDate \/ r.timestamp < before)}

\* C9: a clear_history that commits deletes exactly the identity's history
\* rows with timestamp < before (all of them when no timestamp is given) and
\* leaves the other rows and every agent_states row as they were.  (The step
\* that closes the connection with the staged table installed is the commit.)
C9_PruneExact ==
  [][ \A c \in Conns :
        (pc[c] = "clear_del" /\ pc'[c] = "closed" /\ state_history' = txn.state_history)
          => /\ state_history' = state_history \ C9_ToDelete(loc[c].agent_id, loc[c].before)
             /\ agent_states' = agent_states ]_vars

\* C10: history is append-only.  A step that is not a prune removes no row;
\* no step changes an existing row; a committed save adds exactly one row; and
\* nothing else adds a row.
C10_AppendOnly ==
  [][ /\ (~ \E c \in Conns : pc[c] = "clear_del") => state_history \subseteq state_history'
      /\ \A r \in state_history : \A q \in state_history' : r.id = q.id => r = q
      /\ (saved' # saved)
           => /\ state_history \subseteq state_history'
              /\ Cardinality(state_history' \ state_history) = 1
      /\ (saved' = saved) => state_history' \subseteq state_history ]_vars

\* C10 witness: MaxSaves saves, at least two of one identity, every row in history.
C10_Witness ==
  /\ AllClosed
  /\ \E a \in AgentIds : saved[a] >= 2 /\ Cardinality(HistoryOf(a)) = saved[a]
  /\ Cardinality(state_history) = MaxSaves

\* The smaller of two numbers.
Min(x, y) == IF x < y THEN x ELSE y

\* The history rows of an identity, the most recently saved first.
RECURSIVE C11_NewestFirst(_)
C11_NewestFirst(rows) ==
  IF rows = {} THEN <<>>
  ELSE LET last == CHOOSE r \in rows : \A q \in rows : q.id <= r.id
       IN <<HistoryEntry(last)>> \o C11_NewestFirst(rows \ {last})

C13_DuplicateRegisterFails ==
  [][ (ret' # ret /\ ret'.call = "register_agent" /\ ret'.agent_id \in Keys(agents))
        => /\ ret'.outcome = "ValueError"
           /\ agents' = agents
           /\ active_agents' = active_agents ]_vars

\* C13 witness: a register_agent that has ended with ValueError for an identity
\* that is registered and active.
C13_Witness ==
  /\ ret.call = "register_agent"
  /\ ret.outcome = "ValueError"
  /\ ret.agent_id \in Keys(agents)
  /\ ret.agent_id \in active_agents

\* A step in which a task calls a method of an agent on behalf of start_agent or
\* stop_agent.
C14_Calls(t, method, call) ==
  /\ tpc'[t] = method
  /\ tloc'[t].call = call
  /\ tpc[t] # method \/ tloc'[t] # tloc[t]

\* C14: start on an agent that is active is a no-op: start_agent, called
\* directly, by start_agents or for a start event, never calls initialize() of
\* an identity that is in the active set.
C14_StartActiveNoInitialize ==
  [][ \A t \in Tasks :
        C14_Calls(t, "initialize", "start_agent")
          => tloc'[t].agent_id \notin active_agents ]_vars

\* C15: the flag is cleared only after cleanup() was called for that stop: a
\* step that removes an identity from the active set, or that sets running of
\* an agent to False, is made by a task that is already in cleanup() of it.
C15_CleanupBeforeFlagCleared ==
  [][ /\ \A a \in active_agents \ active_agents' :
           \E t \in Tasks : tpc[t] = "cleanup" /\ tloc[t].agent_id = a
      /\ \A a \in Instances :
           (running[a] /\ ~running'[a])
             => \E t \in Tasks : tpc[t] = "cleanup" /\ tloc[t].agent = a ]_vars

\* C16: for every identity at most one process_cycle() is in flight, and none
\* while a cleanup() of the identity is in flight.
C16_SingleFlight ==
  \A a \in AgentNames :
    /\ Cardinality(InFlight(a, "cycle")) <= 1
    /\ InFlight(a, "cycle") # {} => InFlight(a, "cleanup") = {}

\* C17: start_agent and stop_agent for an identity that is not registered both
\* end with the unknown-agent error (ValueError) and change neither the
\* registry nor the active set.
C17_UnregisteredFails ==
  [][ (/\ ret' # ret
       /\ ret'.op \in {"start_agent", "stop_agent"}
       /\ ret'.agent_id \notin Keys(agents))
        => /\ ret'.outcome = "ValueError"
           /\ agents' = agents
           /\ active_agents' = active_agents ]_vars

\* C18: stop on a registered agent that is not active is a no-op: cleanup() is
\* called by stop_agent only for an identity in the active set, and a
\* stop_agent that ends at once (no task moves) returns without an error and
\* leaves the registry and the active set as they were.
C18_StopInactiveNoOp ==
  [][ /\ \A t \in Tasks :
           C14_Calls(t, "cleanup", "stop_agent") => tloc'[t].agent_id \in active_agents
      /\ (/\ tpc' = tpc
          /\ ret' # ret
          /\ ret'.call = "stop_agent"
          /\ ret'.agent_id \in Keys(agents))
           => /\ ret'.outcome = "returned"
              /\ ret'.agent_id \notin active_agents
              /\ agents' = agents
              /\ active_agents' = active_agents ]_vars

\* C18 witness: stop_agent has returned for a registered, inactive identity
\* without calling its cleanup(), while the other agent is active.
C18_Witness ==
  /\ ret.call = "stop_agent"
  /\ ret.outcome = "returned"
  /\ ret.skipped = {ret.agent_id}
  /\ ret.agent_id \in Keys(agents) \ active_agents
  /\ active_agents # {}

\* C19: every identity in the active set is registered.
C19_ActiveAreRegistered == active_agents \subseteq Keys(agents)

\* C19 witness: one agent registered and active, the other identity not
\* registered, after a start_agent for it has failed.
C19_Witness ==
  /\ active_agents # {}
  /\ active_agents = Keys(agents)
  /\ ret.call = "start_agent"
  /\ ret.outcome = "ValueError"
  /\ ret.agent_id \notin Keys(agents)

\* C20: start_agents is best-effort: when initialize() of an agent raises in
\* it, start is still attempted for every other registered agent.
C20_StartAllBestEffort ==
  (ret.op = "start_agents" /\ ret.outcome = "AgentError") => ret.skipped = {}

\* C21: a failed initialize() aborts the start: when initialize() raises in a
\* start, the agent is not in the manager's active set afterwards, and the
\* running flag of an agent started by BaseAgent.start is not left set.
C21_FailedInitializeAborts ==
  [][ \A t \in Tasks :
        (tpc[t] = "initialize" /\ tpc'[t] = "idle" /\ ret'.outcome = "AgentError")
          => /\ tloc[t].call = "start_agent" => tloc[t].agent_id \notin active_agents'
             /\ tloc[t].call = "start" => ~running'[tloc[t].agent] ]_vars

\* The agent operation a task has gone into, or has just ended, in a step.
C22_Operation(t) == IF tpc'[t] = "idle" THEN ret'.call ELSE tloc'[t].call

\* C22: process_event routes an event for a registered agent by its type: start
\* to start_agent, stop to stop_agent, update to a configuration update of the
\* agent; and it invokes no other operation of the agent.
C22_DispatchRoutes ==
  [][ \A t \in Tasks, event_type \in EventTypes, agent_id \in AgentNames :
        (ProcessEvent(t, event_type, agent_id) /\ agent_id \in Keys(agents))
          => /\ event_type = "start" => C22_Operation(t) = "start_agent"
             /\ event_type = "stop" => C22_Operation(t) = "stop_agent"
             /\ event_type = "update" => C22_Operation(t) = "update_configuration"
             /\ C22_Operation(t) \in {"start_agent", "stop_agent", "update_configuration",
                                      "process_event"} ]_vars

\* C23: process_event for an event whose agent_id is missing or not registered
\* is a silent no-op: it returns without an error, no task goes into an
\* operation of an agent for it, and the registry and the active set are
\* unchanged.
C23_UnknownAgentEventNoOp ==
  [][ /\ (ret' # ret /\ ret'.op = "process_event" /\ ret'.agent_id \notin Keys(agents))
           => /\ ret'.outcome = "returned"
              /\ ret'.call = "process_event"
              /\ tpc' = tpc
              /\ agents' = agents
              /\ active_agents' = active_agents
      /\ \A t \in Tasks :
           (tloc'[t].op = "process_event" /\ tloc'[t] # tloc[t])
             => tloc'[t].agent_id \in Keys(agents) ]_vars

\* C23 witness: an event for an identity that is not registered has been
\* processed and has returned, while another agent is registered and active.
C23_Witness ==
  /\ ret.op = "process_event"
  /\ ret.call = "process_event"
  /\ ret.outcome = "returned"
  /\ ret.agent_id \in AgentNames \ Keys(agents)
  /\ active_agents # {}

\* C24: get_states returns a mapping whose keys are exactly the identities in
\* the active set, each with the state its agent exports.
C24_SnapshotOfActive ==
  /\ GetStates(agents) # AttributeError
  /\ DOMAIN GetStates(agents) = active_agents

\* C25: snapshot and restore round-trip: after stop_agents, the snapshot of the
\* registered agents is a mapping, restore_state of it imports it into every
\* one of them, and a new snapshot equals it.
C25_SnapshotRestoreRoundTrip ==
  (ret.op = "stop_agents" /\ ret.outcome = "returned" /\ agents # <<>>)
    => LET snapshot == GetStates(agents)
       IN /\ snapshot # AttributeError
          /\ RestoreState(agents, snapshot).outcome = "returned"
          /\ RestoreState(agents, snapshot).imported = Keys(agents)
          /\ GetStates(agents) = snapshot

\* C26: restore_state(mapping) imports the blobs into exactly the agents whose
\* identity is both in the mapping and in the registry, and raises no error,
\* whichever identities the mapping has.
C26_RestoreExactlyRegistered ==
  \A states \in StateMaps :
    /\ RestoreState(agents, states).outcome = "returned"
    /\ RestoreState(agents, states).imported = DOMAIN states \cap Keys(agents)

\* C27: on shutdown the agents are stopped first and their states persisted
\* then: when Framework.stop returns, the active set is empty and the call has
\* committed a new version of "agents" that holds the state of every
\* registered agent.
C27_ShutdownPersists ==
  [][ (ret' # ret /\ ret'.op = "framework_stop"
         /\ ret'.outcome \in {"returned", "logged"})
        => /\ active_agents' = {}
           /\ saved'["agents"] = saved["agents"] + 1
           /\ DOMAIN (LoadState("agents"))' = Keys(agents) ]_vars

\* C28: the run cycle of an agent the manager has started is driven: on a fair
\* event loop, an identity in the active set leads to a process_cycle() of it
\* in progress, unless it leaves the active set first.
C28_ActiveAgentCycles ==
  \A a \in AgentNames :
    (a \in active_agents) ~> (InFlight(a, "cycle") # {} \/ a \notin active_agents)

\* C29: a failure inside a run cycle does not end the run loop: a run loop
\* leaves a process_cycle() only for its sleep, with the running flags as they
\* were (nothing reaches BaseAgent.start's except), and it leaves the sleep
\* for the next process_cycle() as long as the agent is running.
C29_FailedCycleKeepsLoop ==
  [][ \A t \in Tasks :
        /\ (tpc[t] = "cycle" /\ tloc[t].call = "start" /\ tpc'[t] # "cycle")
             => /\ tpc'[t] = "sleep"
                /\ tloc'[t] = tloc[t]
                /\ running' = running
        /\ (tpc[t] = "sleep" /\ running[tloc[t].agent] /\ tpc'[t] # "sleep")
             => /\ tpc'[t] = "cycle"
                /\ tloc'[t] = tloc[t] ]_vars

\* The last call that ended is a cycle of a run loop that logged its failure,
\* no other task has a call in progress, and that loop is in its next cycle with
\* its agent running.
C29_Witness ==
  /\ ret.op = "start" /\ ret.call = "process_cycle" /\ ret.outcome = "logged"
  /\ \E t \in Tasks :
       /\ tpc[t] = "cycle" /\ tloc[t].call = "start" /\ running[tloc[t].agent]
       /\ \A u \in Tasks \ {t} : tpc[u] = "idle"

\* Task t is in BaseAgent.start of agent a.
C30_InLoop(t, a) == tpc[t] # "idle" /\ tloc[t].call = "start" /\ tloc[t].agent = a

\* A run loop begins a cycle only of an agent whose flag is set.
C30_NoNewCycle ==
  [][ \A t \in Tasks :
        (tpc[t] # "cycle" /\ tpc'[t] = "cycle" /\ tloc'[t].call = "start")
          => running[tloc'[t].agent] ]_vars

\* The step of stop that clears the flag leaves every cycle in progress as it is.
C30_CycleNotInterrupted ==
  [][ \A a \in Instances :
        (running[a] /\ ~running'[a])
          => \A t \in Tasks :
               tpc[t] = "cycle" => (tpc'[t] = "cycle" /\ tloc'[t] = tloc[t]) ]_vars

\* A run loop of an agent whose flag stop has cleared terminates.
C30_LoopTerminates ==
  \A t \in Tasks, a \in Instances :
    (C30_InLoop(t, a) /\ ~running[a]) ~> ~C30_InLoop(t, a)

\* The same, unless start is called for the agent again.
C30_LoopTerminatesUnlessRestarted ==
  \A t \in Tasks, a \in Instances :
    (C30_InLoop(t, a) /\ ~running[a]) ~> (~C30_InLoop(t, a) \/ running[a])

\* C30: stop is cooperative: once stop was requested for an agent no new run
\* cycle of it begins, a cycle in progress is not interrupted, and on a fair
\* event loop the run loop of BaseAgent.start terminates.
C30_CooperativeStop ==
  /\ C30_NoNewCycle
  /\ C30_CycleNotInterrupted
  /\ C30_LoopTerminates

\* C31: get(key) returns the stored value at every time strictly before the
\* entry's expires-at and absent at every time after it, whether or not
\* clear_expired has run: at every instant, for every entry set and not
\* deleted, a get would return so.
C31_GetHonoursExpiry ==
  \A k \in DOMAIN entries :
    /\ clock < entries[k].expires_at => CacheGet(cache, k) = entries[k].value
    /\ clock > entries[k].expires_at => CacheGet(cache, k) = None

\* C32: set stores expires-at = created-at + ttl for every ttl supplied, and
\* the configured default duration only when none is supplied: every row of
\* the cache has the expiry so computed from the arguments of its set.
C32_ExpiryFromTtl ==
  \A k \in DOMAIN cache \cap DOMAIN entries :
    cache[k].expiry =
      cache[k].timestamp
        + (IF entries[k].ttl = NoTtl THEN CacheDuration ELSE entries[k].ttl) * SubsPerSec

\* The messages sent so far to recipient r by sender s, in the order of sending.
C33_SentTo(s, r) ==
  LET Match(x) == x.sender = s /\ x.target_agent = r
  IN SelectSeq(sent, Match)

\* The messages queued for r that came from s, in the order of the queue.
C33_QueuedFrom(s, r) ==
  LET Match(x) == x.sender = s
  IN SelectSeq(inbox[r], Match)

\* C33: per sender and recipient the messages are queued for the recipient in
\* the order they were sent and none is lost: what is queued for R from A is
\* what A has sent to R, in that order (no message is ever consumed, so
\* nothing sent may be missing from the queue).
C33_MessagesQueuedInOrder ==
  \A s \in AgentNames, r \in AgentNames : C33_QueuedFrom(s, r) = C33_SentTo(s, r)

\* C34: a storage failure never crashes the orchestrator: when a StateManager
\* call fails during load_states of Framework.initialize or during save_states
\* of Framework.stop, the Framework operation still returns, without raising.
C34_StorageFailureContained ==
  [][ \A t \in FwTasks, failing \in Failing \ {"none"} :
        /\ \A fault \in StorageFaults :
             FrameworkInitialize(t, failing, fault)
               => (tpc'[t] = "idle" /\ ret'.outcome \in {"returned", "logged"})
        /\ \A progress_state \in Dicts :
             FwSaveStates(t, progress_state, failing)
               => (tpc'[t] = "idle" /\ ret'.outcome \in {"returned", "logged"}) ]_vars

\* Framework.stop has returned from a save_states whose save_state failed: no
\* agent is registered, so the exception it logged was the store's, and the
\* snapshot of the agents was committed before the progress state failed.
C34_Witness ==
  /\ ret.op = "framework_stop" /\ ret.call = "save_states" /\ ret.outcome = "logged"
  /\ agents = <<>>
  /\ saved["agents"] = 1 /\ saved["progress"] = 0

\* C35: every connection a call of the cache opens is released on every exit
\* path, and no secondary error replaces the original one: the last call has
\* closed what it opened, and it has not ended with the UnboundLocalError of
\* its own finally block.
C35_ConnectionsReleased ==
  /\ cres.opened = cres.closed
  /\ cres.outcome # "UnboundLocalError"

\* C36: pruning never makes a version number come back: a save_state that
\* commits, after a prune as after anything else, adds one history row whose
\* version is the current row's version plus 1 (1 only when the identity has
\* no current row) and is the number of saves committed for the identity, so
\* it is above every version written for it before.
C36_PruneKeepsVersions ==
  [][ \A a \in AgentIds :
        saved'[a] = saved[a] + 1
          => \E r \in state_history' \ state_history :
               /\ r.agent_id = a
               /\ r.version = saved'[a]
               /\ r.version = IF a \in DOMAIN agent_states
                              THEN agent_states[a].version + 1 ELSE 1 ]_vars

\* A save after a prune: the identity was saved twice and its history holds
\* version 2 alone, written in the first second.  Version 1 was then written in
\* that second too, so no prune after the second save can have deleted
\* version 1 and left version 2: version 1 was pruned before version 2 was saved.
C36_Witness ==
  /\ AllClosed
  /\ \E a \in AgentIds : \E r \in HistoryOf(a) :
       /\ saved[a] = 2
       /\ HistoryOf(a) = {r}
       /\ r.version = 2
       /\ SqlDatetime(r.timestamp) = 0

\* C37: when cleanup() of an agent raises during a stop, the error leaves the
\* call and the active set is as it was, the agent still in it; stop_agents
\* ends there, leaving the identities it has not visited yet uncalled and
\* active.
C37_FailedCleanupKeepsActive ==
  [][ \A t \in Tasks :
        (/\ tpc[t] = "cleanup" /\ tloc[t].call = "stop_agent"
         /\ tpc'[t] = "idle" /\ ret'.outcome = "AgentError")
          => /\ active_agents' = active_agents
             /\ ret'.op = tloc[t].op
             /\ ret'.agent_id = tloc[t].agent_id
             /\ ret'.skipped = Range(tloc[t].todo) ]_vars

\* stop_agents has ended with the error of the first cleanup() it called: that
\* agent and the one it had not visited yet are both still active, and no task
\* is in a call.
C37_Witness ==
  /\ ret.op = "stop_agents" /\ ret.outcome = "AgentError"
  /\ ret.agent_id \in active_agents
  /\ ret.skipped # {}
  /\ ret.skipped \subseteq active_agents
  /\ \A t \in Tasks : tpc[t] = "idle"

\* C38: when stop_agents returns without an error, the active set is empty and
\* cleanup() was called by it on each agent that was active when it began: the
\* return that follows its last cleanup() finds no identity active, and none
\* of the identities it had listed was passed over without a cleanup().
C38_StopAllStopsAll ==
  [][ \A t \in Tasks :
        (/\ tpc[t] = "cleanup" /\ tloc[t].op = "stop_agents"
         /\ tpc'[t] = "idle"
         /\ ret'.op = "stop_agents" /\ ret'.outcome = "returned")
          => /\ active_agents' = {}
             /\ tloc[t].todo = <<>> ]_vars

\* C39: an event delivered through Framework.process_event never starts, stops
\* or cycles an agent: for every event, of any type and for any agent, the
\* registry, the active set and the running flags are unchanged and the task
\* has gone into no operation of an agent.
C39_FrameworkEventsInert ==
  [][ \A t \in FwTasks, event_type \in FwEventTypes,
         agent_id \in AgentNames \cup {NoAgentId} :
        FwProcessEvent(t, event_type, agent_id)
          => /\ agents' = agents
             /\ active_agents' = active_agents
             /\ running' = running
             /\ tpc'[t] = "idle" ]_vars

\* An "agent_event" for a registered, active agent went through the Framework
\* to the manager's process_event, which has returned.
C39_Witness ==
  /\ ret.op = "process_event" /\ ret.call = "process_event" /\ ret.outcome = "returned"
  /\ ret.agent_id \in Keys(agents)
  /\ ret.agent_id \in active_agents

====
